---- MODULE Spec2Model ----
(***************************************************************************)
(* A model of sft/trainer.py: Trainer.train (the epoch / batch loop, the   *)
(* optional validation, the per-epoch checkpoint with its retention step   *)
(* and the barrier), Trainer.get_checkpoint_dir, evaluate and LossTracker. *)
(*                                                                         *)
(* Every process of a distributed run executes the same train(); the       *)
(* processes share the checkpoint root and meet at wait_for_everyone.      *)
(* The forward pass, the optimizer, the scheduler and the save routines    *)
(* are external: a loss is a value drawn from loss_values.                 *)
(***************************************************************************)
EXTENDS Integers, Sequences, FiniteSets, TLC

\* ---------------------------------------------------------------- bounds
MaxEpochs == 2
MaxBatches == 3
MaxLogInterval == 2
MaxValBatches == 1
MaxLoss == 2
MaxSteps == 6
MaxProcs == 3
MaxInitDirs == 3
MaxLimit == 4
MaxLoad == 6
MaxCalls == 5

\* LossTracker.__init__(ndigits=4)
NDigits == 4

\* None, and Some(x), of an optional argument.
None == <<>>
Some(x) == <<x>>
Val(o) == o[1]

VARIABLES
    \* Trainer.__init__ arguments and the accelerator's configuration
    epochs,                  \* self.epochs
    num_batches,             \* len(self.train_dataloader)
    log_interval,            \* self.log_interval
    lr_scheduler,            \* self.lr_scheduler: "None" or "LRScheduler"
    validation_dataloader,   \* None, or Some(number of batches it yields)
    save_on_epoch_end,       \* self.save_on_epoch_end
    total_limit,             \* project_configuration.total_limit: None or Some(n)
    num_nodes,               \* machines of the run
    procs_per_node,          \* processes on each machine
    loss_values,             \* the values a forward pass may return as loss
    initial_fs,              \* the entries of the checkpoint root when the run starts
    \* the checkpoint root <project_dir>/checkpoints: the names of its entries
    fs,
    \* per process
    pc,                      \* position in train()
    current_epoch,           \* the loop variable of train()
    batch_index,             \* the loop variable of the step loop
    current_step,            \* self.current_step
    train_loss_tracker,      \* self.train_loss_tracker
    validation_loss_tracker, \* self.validation_loss_tracker
    model_mode,              \* "init", "train" (model.train()) or "eval" (model.eval())
    log,                     \* the records handed to accelerator.log, in order
    ops,                     \* the calls made for the batch in progress, in order
    epoch_losses,            \* the losses the forward pass returned in this epoch
    eval_index,              \* batches evaluate() has consumed
    eval_runs,               \* calls of evaluate() so far
    folders,                 \* get_checkpoint_dir: the folders still to delete
    listed,                  \* get_checkpoint_dir: what os.listdir returned
    removed,                 \* get_checkpoint_dir: what this call has deleted
    saved,                   \* epochs whose save_pretrained calls have returned
    arrivals,                \* calls of wait_for_everyone so far
    ended,                   \* calls of accelerator.end_training so far
    error,                   \* the exception that left train(), or "none"
    \* a LossTracker on its own, driven by arbitrary calls
    tracker,                 \* the LossTracker
    fed,                     \* the values passed to update since the last reset
    calls                    \* the calls made on it, in order

config == <<epochs, num_batches, log_interval, lr_scheduler, validation_dataloader,
            save_on_epoch_end, total_limit, num_nodes, procs_per_node, loss_values,
            initial_fs>>
locals == <<pc, current_epoch, batch_index, current_step, train_loss_tracker,
            validation_loss_tracker, model_mode, log, ops, epoch_losses, eval_index,
            eval_runs, folders, listed, removed, saved, arrivals, ended, error>>
harness == <<tracker, fed, calls>>
vars == <<config, fs, locals, harness>>

\* ------------------------------------------------------------- processes
Procs == 0 .. (num_nodes * procs_per_node - 1)
local_process_index(p) == p % procs_per_node
is_local_main_process(p) == local_process_index(p) = 0
is_main_process(p) == p = 0

\* ------------------------------------------------------ directory names
(* A name is a sequence of tokens: a digit character, or a run of          *)
(* characters without a digit ("checkpoint_").                             *)
Digits == <<"0", "1", "2", "3", "4", "5", "6", "7", "8", "9">>
IsDigit(c) == \E i \in 1..10 : Digits[i] = c
DigitVal(c) == (CHOOSE i \in 1..10 : Digits[i] = c) - 1

RECURSIVE Str(_)
\* str(n) of f'checkpoint_{current_epoch-1}'
Str(n) == IF n < 10 THEN <<Digits[n + 1]>> ELSE Str(n \div 10) \o <<Digits[(n % 10) + 1]>>

CheckpointName(n) == <<"checkpoint_">> \o Str(n)

RECURSIVE FindAll(_)
\* re.findall(r'[\/]?([0-9]+)(?=[^\/]*$)', folder): the maximal digit runs of
\* the path's last component, left to right.
FindAll(name) ==
    IF name = <<>> THEN <<>>
    ELSE IF ~IsDigit(Head(name)) THEN FindAll(Tail(name))
    ELSE LET n == Len(name)
             k == CHOOSE j \in 1..n :
                     /\ \A i \in 1..j : IsDigit(name[i])
                     /\ (j = n \/ ~IsDigit(name[j + 1]))
         IN <<SubSeq(name, 1, k)>> \o FindAll(SubSeq(name, k + 1, n))

RECURSIVE ToInt(_)
\* int(s) of a digit string
ToInt(s) == IF s = <<>> THEN 0 ELSE 10 * ToInt(SubSeq(s, 1, Len(s) - 1)) + DigitVal(s[Len(s)])

\* list(map(int, re.findall(...)))[0]; an IndexError when the name has no digit
_inner(folder) == ToInt(FindAll(folder)[1])
HasNumber(folder) == FindAll(folder) # <<>>

\* The trailing numeric token of a name (the epoch suffix of checkpoint_<n>).
Suffix(folder) == ToInt(FindAll(folder)[Len(FindAll(folder))])

\* The orders os.listdir may return the entries in.
Listings(S) ==
    LET n == Cardinality(S)
    IN {s \in [1..n -> S] : \A i, j \in 1..n : i # j => s[i] # s[j]}

RECURSIVE Insert(_, _)
\* x placed behind every element of the sorted s whose key is <= its own
Insert(s, x) ==
    IF s = <<>> THEN <<x>>
    ELSE IF _inner(Head(s)) <= _inner(x) THEN <<Head(s)>> \o Insert(Tail(s), x)
    ELSE <<x>> \o s

RECURSIVE Sort(_)
\* folders.sort(key=_inner): stable
Sort(s) == IF s = <<>> THEN <<>> ELSE Insert(Sort(SubSeq(s, 1, Len(s) - 1)), s[Len(s)])

\* folders[:n]; a negative n counts from the end
Slice(s, n) ==
    LET stop == IF n < 0 THEN Len(s) + n ELSE n
    IN SubSeq(s, 1, IF stop < 0 THEN 0 ELSE IF stop > Len(s) THEN Len(s) ELSE stop)

\* total_limit is not None and len(folders) + 1 > total_limit
OverLimit(n) == total_limit # None /\ n + 1 > Val(total_limit)

\* a faulty variant: len(folders) - total_limit
NumToDeleteOffByOne(n) == n - Val(total_limit)

\* len(folders) + 1 - total_limit
NumToDelete(n) == n + 1 - Val(total_limit)

\* ----------------------------------------------------------- LossTracker
RECURSIVE GCD(_, _)
GCD(a, b) == IF b = 0 THEN a ELSE GCD(b, a % b)

\* A float is kept as an exact fraction <<numerator, denominator>>.
Frac(n, d) == LET g == GCD(n, d) IN IF n = 0 THEN <<0, 1>> ELSE <<n \div g, d \div g>>

RECURSIVE Pow10(_)
Pow10(k) == IF k = 0 THEN 1 ELSE 10 * Pow10(k - 1)

\* LossTracker.__init__
NewLossTracker == [loss |-> <<0, 1>>, loss_count |-> 0, history |-> <<>>]

\* a faulty variant: the mean of the old mean and the new value
RunningMeanOfTwo(t, x) == Frac(t.loss[1] + x * t.loss[2], 2 * t.loss[2])

\* (self._loss * self.loss_count + loss) / (self.loss_count + 1)
RunningMean(t, x) ==
    Frac(t.loss[1] * t.loss_count + x * t.loss[2], t.loss[2] * (t.loss_count + 1))

\* LossTracker.update
Update(t, x) == [t EXCEPT !.loss = RunningMean(t, x), !.loss_count = @ + 1]

\* LossTracker.reset
Reset(t) == [t EXCEPT !.loss = <<0, 1>>, !.loss_count = 0]

\* round(x, ndigits), in units of 10^-ndigits, ties to even
Round(x, ndigits) ==
    LET n == x[1] * Pow10(ndigits)
        q == n \div x[2]
        r == n % x[2]
    IN IF 2 * r < x[2] THEN q
       ELSE IF 2 * r > x[2] THEN q + 1
       ELSE IF q % 2 = 0 THEN q ELSE q + 1

\* LossTracker.loss
Loss(t) == Round(t.loss, NDigits)

\* a faulty variant: the reset ahead of the append
OnEpochEndResetFirst(t, reset) ==
    LET r == IF reset THEN Reset(t) ELSE t
    IN [r EXCEPT !.history = Append(@, Loss(r))]

\* LossTracker.on_epoch_end(reset)
OnEpochEnd(t, reset) ==
    LET h == [t EXCEPT !.history = Append(@, Loss(t))]
    IN IF reset THEN Reset(h) ELSE h

\* The mean of a non-empty sequence of losses, rounded like Loss.
RECURSIVE Sum(_)
Sum(s) == IF s = <<>> THEN 0 ELSE Head(s) + Sum(Tail(s))
MeanOf(s) == IF s = <<>> THEN 0 ELSE Round(Frac(Sum(s), Len(s)), NDigits)

\* ------------------------------------------------------------------ Init
NamePool ==
    { CheckpointName(0), CheckpointName(1), CheckpointName(9), CheckpointName(10),
      <<"checkpoint_", "0", "1">>,            \* checkpoint_01
      <<"run", "2", "_checkpoint_", "0">>,    \* run2_checkpoint_0
      <<"latest">> }

InitLocals ==
    /\ pc = [p \in Procs |-> "loop"]
    /\ current_epoch = [p \in Procs |-> 0]
    /\ batch_index = [p \in Procs |-> 0]
    /\ current_step = [p \in Procs |-> 0]
    /\ train_loss_tracker = [p \in Procs |-> NewLossTracker]
    /\ validation_loss_tracker = [p \in Procs |-> NewLossTracker]
    /\ model_mode = [p \in Procs |-> "init"]
    /\ log = [p \in Procs |-> <<>>]
    /\ ops = [p \in Procs |-> <<>>]
    /\ epoch_losses = [p \in Procs |-> <<>>]
    /\ eval_index = [p \in Procs |-> 0]
    /\ eval_runs = [p \in Procs |-> 0]
    /\ folders = [p \in Procs |-> <<>>]
    /\ listed = [p \in Procs |-> {}]
    /\ removed = [p \in Procs |-> {}]
    /\ saved = [p \in Procs |-> 0]
    /\ arrivals = [p \in Procs |-> 0]
    /\ ended = [p \in Procs |-> 0]
    /\ error = [p \in Procs |-> "none"]
    /\ tracker = NewLossTracker
    /\ fed = <<>>
    /\ calls = <<>>

\* The batches an epoch consumes: those of the training and of the validation
\* data source.
BatchesPerEpoch(train, validation) ==
    train + (IF validation = None THEN 0 ELSE Val(validation))

\* One process, an empty checkpoint root: every configuration of the loop whose
\* run consumes at most MaxSteps batches.
Init ==
    /\ num_nodes = 1
    /\ procs_per_node = 1
    /\ epochs \in 0..MaxEpochs
    /\ num_batches \in 0..MaxBatches
    /\ log_interval \in 0..MaxLogInterval
    /\ lr_scheduler \in {"None", "LRScheduler"}
    /\ validation_dataloader \in {None} \cup {Some(n) : n \in 0..MaxValBatches}
    /\ epochs * BatchesPerEpoch(num_batches, validation_dataloader) <= MaxSteps
    /\ save_on_epoch_end \in BOOLEAN
    /\ total_limit \in {None, Some(1)}
    /\ loss_values = 1..MaxLoss
    /\ fs = {}
    /\ initial_fs = fs
    /\ InitLocals

\* Several processes on several nodes, any content of the checkpoint root,
\* any retention limit: every configuration of the checkpoint step in which
\* the processes, the entries the root starts with and the epochs are at most
\* MaxLoad together. Validation is configured in the single-process runs.
InitCkpt ==
    /\ num_nodes \in 1..MaxProcs
    /\ procs_per_node \in 1..MaxProcs
    /\ num_nodes * procs_per_node <= MaxProcs
    /\ epochs \in 1..MaxEpochs
    /\ num_batches = 1
    /\ log_interval = 1
    /\ lr_scheduler = "LRScheduler"
    /\ validation_dataloader \in {None, Some(1)}
    /\ (validation_dataloader = None \/ num_nodes * procs_per_node = 1)
    /\ save_on_epoch_end = TRUE
    /\ total_limit \in {None} \cup {Some(n) : n \in 0..MaxLimit}
    /\ loss_values = {1}
    /\ fs \in {S \in SUBSET NamePool : Cardinality(S) <= MaxInitDirs}
    /\ num_nodes * procs_per_node + Cardinality(fs) + epochs <= MaxLoad
    /\ initial_fs = fs
    /\ InitLocals

\* --------------------------------------------------------------- train()
Raise(p, e) == /\ pc' = [pc EXCEPT ![p] = "failed"]
               /\ error' = [error EXCEPT ![p] = e]

\* accelerator.log(metrics, step=step); epoch and batch say where it was made
Record(p, name, step, value) ==
    [name |-> name, step |-> step, value |-> value,
     epoch |-> current_epoch[p], batch |-> batch_index[p]]

\* batch_index % self.log_interval == 0
LogDue(i) == i % log_interval = 0

\* a faulty variant: the tracker's update ahead of the optimizer's step
AccumulateOpsUpdateEarly ==
    <<"zero_grad", "forward", "backward", "train_loss_tracker.update", "optimizer.step">>
    \o (IF lr_scheduler # "None" THEN <<"lr_scheduler.step">> ELSE <<>>)

\* the calls of lines 59-68, in order
AccumulateOps ==
    <<"zero_grad", "forward", "backward", "optimizer.step">>
    \o (IF lr_scheduler # "None" THEN <<"lr_scheduler.step">> ELSE <<>>)
    \o <<"train_loss_tracker.update">>

\* a faulty variant: the step counter restarts with each epoch
EpochStartResetStep(p) ==
    /\ pc[p] = "loop"
    /\ current_epoch[p] < epochs
    /\ current_epoch' = [current_epoch EXCEPT ![p] = @ + 1]
    /\ current_step' = [current_step EXCEPT ![p] = 0]
    /\ model_mode' = [model_mode EXCEPT ![p] = "train"]
    /\ batch_index' = [batch_index EXCEPT ![p] = 0]
    /\ epoch_losses' = [epoch_losses EXCEPT ![p] = <<>>]
    /\ pc' = [pc EXCEPT ![p] = "step"]
    /\ UNCHANGED <<harness, config, fs, train_loss_tracker, validation_loss_tracker,
                   log, ops, eval_index, eval_runs, folders, listed, removed, saved,
                   arrivals, ended, error>>

\* for current_epoch in range(1, self.epochs + 1): model.train(); on_epoch_start()
EpochStart(p) ==
    /\ pc[p] = "loop"
    /\ current_epoch[p] < epochs
    /\ current_epoch' = [current_epoch EXCEPT ![p] = @ + 1]
    /\ model_mode' = [model_mode EXCEPT ![p] = "train"]
    /\ batch_index' = [batch_index EXCEPT ![p] = 0]
    /\ epoch_losses' = [epoch_losses EXCEPT ![p] = <<>>]
    /\ pc' = [pc EXCEPT ![p] = "step"]
    /\ UNCHANGED <<harness, config, fs, current_step, train_loss_tracker, validation_loss_tracker,
                   log, ops, eval_index, eval_runs, folders, listed, removed, saved,
                   arrivals, ended, error>>

\* one batch of the step loop, lines 57-79
TrainStep(p) ==
    /\ pc[p] = "step"
    /\ batch_index[p] < num_batches
    /\ \E loss \in loss_values :
        LET t == Update(train_loss_tracker[p], loss)
            done == <<"accumulate.enter">> \o AccumulateOps
                    \o <<"accumulate.exit", "progress_bar.update", "current_step += 1">>
        IN /\ train_loss_tracker' = [train_loss_tracker EXCEPT ![p] = t]
           /\ epoch_losses' = [epoch_losses EXCEPT ![p] = Append(@, loss)]
           /\ current_step' = [current_step EXCEPT ![p] = @ + 1]
           /\ IF log_interval = 0
              THEN \* batch_index % 0
                   /\ Raise(p, "ZeroDivisionError")
                   /\ ops' = [ops EXCEPT ![p] = done]
                   /\ UNCHANGED <<log, batch_index>>
              ELSE IF ~LogDue(batch_index[p])
              THEN /\ ops' = [ops EXCEPT ![p] = done]
                   /\ batch_index' = [batch_index EXCEPT ![p] = @ + 1]
                   /\ UNCHANGED <<log, pc, error>>
              ELSE IF lr_scheduler = "None"
              THEN \* self.lr_scheduler.get_lr() on None
                   /\ Raise(p, "AttributeError")
                   /\ ops' = [ops EXCEPT ![p] = done]
                   /\ UNCHANGED <<log, batch_index>>
              ELSE /\ log' = [log EXCEPT ![p] =
                                Append(@, Record(p, "loss", current_step[p] + 1, Loss(t)))]
                   /\ ops' = [ops EXCEPT ![p] = Append(done, "log_metrics")]
                   /\ batch_index' = [batch_index EXCEPT ![p] = @ + 1]
                   /\ UNCHANGED <<pc, error>>
    /\ UNCHANGED <<harness, config, fs, current_epoch, validation_loss_tracker, model_mode,
                   eval_index, eval_runs, folders, listed, removed, saved, arrivals, ended>>

\* a faulty variant: the tracker's on_epoch_end before the "train/loss" record
EpochEndResetFirst(p) ==
    /\ pc[p] = "step"
    /\ batch_index[p] = num_batches
    /\ train_loss_tracker' = [train_loss_tracker EXCEPT ![p] = OnEpochEnd(@, TRUE)]
    /\ log' = [log EXCEPT ![p] =
                 Append(@, Record(p, "train/loss", current_epoch[p],
                                  Loss(OnEpochEnd(train_loss_tracker[p], TRUE))))]
    /\ pc' = [pc EXCEPT ![p] = "validate"]
    /\ UNCHANGED <<harness, config, fs, current_epoch, batch_index, current_step,
                   validation_loss_tracker, model_mode, ops, epoch_losses, eval_index,
                   eval_runs, folders, listed, removed, saved, arrivals, ended, error>>

\* a faulty variant: no "train/loss" record for an epoch without a batch
EpochEndSkipEmpty(p) ==
    /\ pc[p] = "step"
    /\ batch_index[p] = num_batches
    /\ log' = [log EXCEPT ![p] =
                 IF train_loss_tracker[p].loss_count = 0 THEN @
                 ELSE Append(@, Record(p, "train/loss", current_epoch[p],
                                       Loss(train_loss_tracker[p])))]
    /\ train_loss_tracker' = [train_loss_tracker EXCEPT ![p] = OnEpochEnd(@, TRUE)]
    /\ pc' = [pc EXCEPT ![p] = "validate"]
    /\ UNCHANGED <<harness, config, fs, current_epoch, batch_index, current_step,
                   validation_loss_tracker, model_mode, ops, epoch_losses, eval_index,
                   eval_runs, folders, listed, removed, saved, arrivals, ended, error>>

\* lines 81-84: the epoch's "train/loss" record, then the tracker's on_epoch_end
EpochEnd(p) ==
    /\ pc[p] = "step"
    /\ batch_index[p] = num_batches
    /\ log' = [log EXCEPT ![p] =
                 Append(@, Record(p, "train/loss", current_epoch[p], Loss(train_loss_tracker[p])))]
    /\ train_loss_tracker' = [train_loss_tracker EXCEPT ![p] = OnEpochEnd(@, TRUE)]
    /\ pc' = [pc EXCEPT ![p] = "validate"]
    /\ UNCHANGED <<harness, config, fs, current_epoch, batch_index, current_step,
                   validation_loss_tracker, model_mode, ops, epoch_losses, eval_index,
                   eval_runs, folders, listed, removed, saved, arrivals, ended, error>>

\* bool(dataloader): None is false, and so is a DataLoader whose len() is 0
Truthy(dataloader) == dataloader # None /\ Val(dataloader) # 0

\* if self.validation_dataloader: evaluate(...): model.eval()
ValidationStart(p) ==
    /\ pc[p] = "validate"
    /\ IF Truthy(validation_dataloader)
       THEN /\ model_mode' = [model_mode EXCEPT ![p] = "eval"]
            /\ eval_index' = [eval_index EXCEPT ![p] = 0]
            /\ eval_runs' = [eval_runs EXCEPT ![p] = @ + 1]
            /\ pc' = [pc EXCEPT ![p] = "eval"]
       ELSE /\ pc' = [pc EXCEPT ![p] = "checkpoint"]
            /\ UNCHANGED <<model_mode, eval_index, eval_runs>>
    /\ UNCHANGED <<harness, config, fs, current_epoch, batch_index, current_step, train_loss_tracker,
                   validation_loss_tracker, log, ops, epoch_losses, folders, listed,
                   removed, saved, arrivals, ended, error>>

\* evaluate: one batch of the validation loop
EvalStep(p) ==
    /\ pc[p] = "eval"
    /\ eval_index[p] < Val(validation_dataloader)
    /\ \E loss \in loss_values :
        validation_loss_tracker' = [validation_loss_tracker EXCEPT ![p] = Update(@, loss)]
    /\ eval_index' = [eval_index EXCEPT ![p] = @ + 1]
    /\ UNCHANGED <<harness, config, fs, pc, current_epoch, batch_index, current_step,
                   train_loss_tracker, model_mode, log, ops, epoch_losses, eval_runs,
                   folders, listed, removed, saved, arrivals, ended, error>>

\* evaluate: loss = loss_tracker.loss; on_epoch_end(); then the "validation/loss" record
ValidationEnd(p) ==
    /\ pc[p] = "eval"
    /\ eval_index[p] = Val(validation_dataloader)
    /\ log' = [log EXCEPT ![p] =
                 Append(@, Record(p, "validation/loss", current_epoch[p],
                                  Loss(validation_loss_tracker[p])))]
    /\ validation_loss_tracker' = [validation_loss_tracker EXCEPT ![p] = OnEpochEnd(@, TRUE)]
    /\ pc' = [pc EXCEPT ![p] = "checkpoint"]
    /\ UNCHANGED <<harness, config, fs, current_epoch, batch_index, current_step, train_loss_tracker,
                   model_mode, ops, epoch_losses, eval_index, eval_runs, folders, listed,
                   removed, saved, arrivals, ended, error>>

\* a faulty variant: wait_for_everyone inside the is_local_main_process block
CheckpointBeginBarrierInside(p) ==
    /\ pc[p] = "checkpoint"
    /\ pc' = [pc EXCEPT ![p] =
                IF ~save_on_epoch_end THEN "loop"
                ELSE IF is_local_main_process(p) THEN "listdir" ELSE "loop"]
    /\ UNCHANGED <<harness, config, fs, current_epoch, batch_index, current_step, train_loss_tracker,
                   validation_loss_tracker, model_mode, log, ops, epoch_losses, eval_index,
                   eval_runs, folders, listed, removed, saved, arrivals, ended, error>>

\* if self.save_on_epoch_end: if self.accelerator.is_local_main_process: ...
CheckpointBegin(p) ==
    /\ pc[p] = "checkpoint"
    /\ pc' = [pc EXCEPT ![p] =
                IF ~save_on_epoch_end THEN "loop"
                ELSE IF is_local_main_process(p) THEN "listdir" ELSE "wait"]
    /\ UNCHANGED <<harness, config, fs, current_epoch, batch_index, current_step, train_loss_tracker,
                   validation_loss_tracker, model_mode, log, ops, epoch_losses, eval_index,
                   eval_runs, folders, listed, removed, saved, arrivals, ended, error>>

\* get_checkpoint_dir, lines 124-135: list the root; over the limit, sort by
\* _inner and take the folders to delete
ListFolders(p) ==
    /\ pc[p] = "listdir"
    /\ listed' = [listed EXCEPT ![p] = fs]
    /\ removed' = [removed EXCEPT ![p] = {}]
    /\ IF ~OverLimit(Cardinality(fs))
       THEN /\ folders' = [folders EXCEPT ![p] = <<>>]
            /\ pc' = [pc EXCEPT ![p] = "rmtree"]
            /\ UNCHANGED error
       ELSE IF \E f \in fs : ~HasNumber(f)
       THEN \* _inner: [][0]
            /\ Raise(p, "IndexError")
            /\ UNCHANGED folders
       ELSE /\ \E order \in Listings(fs) :
                 folders' = [folders EXCEPT ![p] =
                               Slice(Sort(order), NumToDelete(Cardinality(fs)))]
            /\ pc' = [pc EXCEPT ![p] = "rmtree"]
            /\ UNCHANGED error
    /\ UNCHANGED <<harness, config, fs, current_epoch, batch_index, current_step, train_loss_tracker,
                   validation_loss_tracker, model_mode, log, ops, epoch_losses, eval_index,
                   eval_runs, saved, arrivals, ended>>

\* shutil.rmtree(folder) of the next folder to delete
Rmtree(p) ==
    /\ pc[p] = "rmtree"
    /\ folders[p] # <<>>
    /\ IF Head(folders[p]) \in fs
       THEN /\ fs' = fs \ {Head(folders[p])}
            /\ removed' = [removed EXCEPT ![p] = @ \cup {Head(folders[p])}]
            /\ folders' = [folders EXCEPT ![p] = Tail(@)]
            /\ UNCHANGED <<pc, error>>
       ELSE \* another process has deleted it
            /\ Raise(p, "FileNotFoundError")
            /\ UNCHANGED <<fs, removed, folders>>
    /\ UNCHANGED <<harness, config, current_epoch, batch_index, current_step, train_loss_tracker,
                   validation_loss_tracker, model_mode, log, ops, epoch_losses, eval_index,
                   eval_runs, listed, saved, arrivals, ended>>

\* lines 139-141: os.makedirs(checkpoint_<current_epoch-1>, exist_ok=True)
MakeCheckpointDir(p) ==
    /\ pc[p] = "rmtree"
    /\ folders[p] = <<>>
    /\ fs' = fs \cup {CheckpointName(current_epoch[p] - 1)}
    /\ pc' = [pc EXCEPT ![p] = "save"]
    /\ UNCHANGED <<harness, config, current_epoch, batch_index, current_step, train_loss_tracker,
                   validation_loss_tracker, model_mode, log, ops, epoch_losses, eval_index,
                   eval_runs, folders, listed, removed, saved, arrivals, ended, error>>

\* unwrapped_model.save_pretrained(save_dir); self.tokenizer.save_pretrained(save_dir)
SavePretrained(p) ==
    /\ pc[p] = "save"
    /\ saved' = [saved EXCEPT ![p] = current_epoch[p]]
    /\ pc' = [pc EXCEPT ![p] = "wait"]
    /\ UNCHANGED <<harness, config, fs, current_epoch, batch_index, current_step, train_loss_tracker,
                   validation_loss_tracker, model_mode, log, ops, epoch_losses, eval_index,
                   eval_runs, folders, listed, removed, arrivals, ended, error>>

\* self.accelerator.wait_for_everyone(): the call
WaitForEveryone(p) ==
    /\ pc[p] = "wait"
    /\ arrivals' = [arrivals EXCEPT ![p] = @ + 1]
    /\ pc' = [pc EXCEPT ![p] = "barrier"]
    /\ UNCHANGED <<harness, config, fs, current_epoch, batch_index, current_step, train_loss_tracker,
                   validation_loss_tracker, model_mode, log, ops, epoch_losses, eval_index,
                   eval_runs, folders, listed, removed, saved, ended, error>>

\* the barrier opens for p once every process has called it as often as p
BarrierOpen(p) == \A q \in Procs : arrivals[q] >= arrivals[p]

\* self.accelerator.wait_for_everyone(): the return
BarrierRelease(p) ==
    /\ pc[p] = "barrier"
    /\ BarrierOpen(p)
    /\ pc' = [pc EXCEPT ![p] = "loop"]
    /\ UNCHANGED <<harness, config, fs, current_epoch, batch_index, current_step, train_loss_tracker,
                   validation_loss_tracker, model_mode, log, ops, epoch_losses, eval_index,
                   eval_runs, folders, listed, removed, saved, arrivals, ended, error>>

\* a faulty variant: end_training inside the epoch loop, after the first epoch
EndTrainingInLoop(p) ==
    /\ pc[p] = "loop"
    /\ current_epoch[p] >= (IF epochs >= 1 THEN 1 ELSE 0)
    /\ ended' = [ended EXCEPT ![p] = @ + 1]
    /\ pc' = [pc EXCEPT ![p] = "done"]
    /\ UNCHANGED <<harness, config, fs, current_epoch, batch_index, current_step, train_loss_tracker,
                   validation_loss_tracker, model_mode, log, ops, epoch_losses, eval_index,
                   eval_runs, folders, listed, removed, saved, arrivals, error>>

\* self.accelerator.end_training(), after the last epoch
EndTraining(p) ==
    /\ pc[p] = "loop"
    /\ current_epoch[p] >= epochs
    /\ ended' = [ended EXCEPT ![p] = @ + 1]
    /\ pc' = [pc EXCEPT ![p] = "done"]
    /\ UNCHANGED <<harness, config, fs, current_epoch, batch_index, current_step, train_loss_tracker,
                   validation_loss_tracker, model_mode, log, ops, epoch_losses, eval_index,
                   eval_runs, folders, listed, removed, saved, arrivals, error>>

Next ==
    \/ \E p \in Procs : EpochStart(p)
    \/ \E p \in Procs : TrainStep(p)
    \/ \E p \in Procs : EpochEnd(p)
    \/ \E p \in Procs : ValidationStart(p)
    \/ \E p \in Procs : EvalStep(p)
    \/ \E p \in Procs : ValidationEnd(p)
    \/ \E p \in Procs : CheckpointBegin(p)
    \/ \E p \in Procs : ListFolders(p)
    \/ \E p \in Procs : Rmtree(p)
    \/ \E p \in Procs : MakeCheckpointDir(p)
    \/ \E p \in Procs : SavePretrained(p)
    \/ \E p \in Procs : WaitForEveryone(p)
    \/ \E p \in Procs : BarrierRelease(p)
    \/ \E p \in Procs : EndTraining(p)

Spec == Init /\ [][Next]_vars
SpecCkpt == InitCkpt /\ [][Next]_vars

\* ------------------------------------------------ a LossTracker alone
\* A fresh LossTracker; no training runs.
InitTracker ==
    /\ num_nodes = 1
    /\ procs_per_node = 1
    /\ epochs = 0
    /\ num_batches = 0
    /\ log_interval = 1
    /\ lr_scheduler = "None"
    /\ validation_dataloader = None
    /\ save_on_epoch_end = FALSE
    /\ total_limit = None
    /\ loss_values = 1..MaxLoss
    /\ fs = {}
    /\ initial_fs = fs
    /\ InitLocals

Call(op, value, reset) == [op |-> op, value |-> value, reset |-> reset]

\* tracker.update(loss_tensor)
TrackerUpdate ==
    /\ Len(calls) < MaxCalls
    /\ \E x \in loss_values :
         /\ tracker' = Update(tracker, x)
         /\ fed' = Append(fed, x)
         /\ calls' = Append(calls, Call("update", x, FALSE))
    /\ UNCHANGED <<config, fs, locals>>

\* tracker.reset()
TrackerReset ==
    /\ Len(calls) < MaxCalls
    /\ tracker' = Reset(tracker)
    /\ fed' = <<>>
    /\ calls' = Append(calls, Call("reset", 0, TRUE))
    /\ UNCHANGED <<config, fs, locals>>

\* tracker.on_epoch_end(reset)
TrackerOnEpochEnd ==
    /\ Len(calls) < MaxCalls
    /\ \E reset \in BOOLEAN :
         /\ tracker' = OnEpochEnd(tracker, reset)
         /\ fed' = IF reset THEN <<>> ELSE fed
         /\ calls' = Append(calls, Call("on_epoch_end", 0, reset))
    /\ UNCHANGED <<config, fs, locals>>

NextTracker ==
    \/ TrackerUpdate
    \/ TrackerReset
    \/ TrackerOnEpochEnd

SpecTracker == InitTracker /\ [][NextTracker]_vars

\* ------------------------------------------------------- derived notions
LocalMains == {p \in Procs : is_local_main_process(p)}

\* p has listed the root and has deletions, the creation of the epoch's
\* directory or the save calls ahead of it
InCheckpointStep(p) == pc[p] \in {"rmtree", "save"}

\* p has left the retention step of some call of get_checkpoint_dir: the
\* deletions of that call are over
RetentionDone(p) ==
    \/ pc[p] = "rmtree" /\ folders[p] = <<>>
    \/ pc[p] = "save"
    \/ saved[p] > 0

\* the barriers p has returned from
BarriersPassed(p) == IF pc[p] = "barrier" THEN arrivals[p] - 1 ELSE arrivals[p]

\* the epochs whose step loop and epoch-end lines p has left behind
EpochsEnded(p) ==
    IF current_epoch[p] = 0 THEN 0
    ELSE IF pc[p] = "step" \/ error[p] \in {"AttributeError", "ZeroDivisionError"}
    THEN current_epoch[p] - 1
    ELSE current_epoch[p]

\* the epochs whose validation lines p has left behind
ValidationsPassed(p) ==
    IF pc[p] \in {"validate", "eval"} THEN EpochsEnded(p) - 1 ELSE EpochsEnded(p)

Records(p, name) == SelectSeq(log[p], LAMBDA r : r.name = name)
Position(p, name, step) ==
    CHOOSE i \in 1..Len(log[p]) : log[p][i].name = name /\ log[p][i].step = step

\* ------------------------------------------------------------------- C1
\* C1 as stated: with a retention limit L configured, once a retention step
\* of get_checkpoint_dir has run, the checkpoint root never holds more than L
\* directories, for every L.
C1_AnyLimit ==
    (total_limit # None /\ \E p \in Procs : RetentionDone(p))
        => Cardinality(fs) <= Val(total_limit)

\* C1 amended: with a retention limit L >= 1 configured, once a retention
\* step of get_checkpoint_dir has run, the checkpoint root never holds more
\* than L directories: between the deletions and the creation of the epoch's
\* directory, and after the creation.
C1_RetentionBound ==
    (total_limit # None /\ Val(total_limit) >= 1 /\ \E p \in Procs : RetentionDone(p))
        => Cardinality(fs) <= Val(total_limit)

\* a retention step has deleted two directories, the epoch's directory has
\* been created, and the root is exactly at the limit
C1_Witness ==
    \E p \in Procs :
        /\ pc[p] = "save"
        /\ total_limit = Some(2)
        /\ Cardinality(removed[p]) = 2
        /\ Cardinality(fs) = 2

\* ------------------------------------------------------------------- C2
\* C2: over a limit L >= 1, when the deletions of get_checkpoint_dir are over
\* and before the epoch's directory is created, exactly
\* (existing_count + 1 - L) directories have been deleted, and each of them
\* has a numeric epoch suffix no larger than that of any directory kept.
C2_DeletesSmallestSuffix ==
    \A p \in Procs :
        ( /\ pc[p] = "rmtree"
          /\ folders[p] = <<>>
          /\ total_limit # None
          /\ Val(total_limit) >= 1
          /\ Cardinality(listed[p]) + 1 > Val(total_limit) )
        => /\ Cardinality(removed[p]) = Cardinality(listed[p]) + 1 - Val(total_limit)
           /\ \A d \in removed[p] : \A k \in listed[p] \ removed[p] :
                 Suffix(d) <= Suffix(k)

\* ------------------------------------------------------------------- C3
\* C3: with checkpointing enabled, a process has returned from the barrier of
\* epoch k only if every process that writes checkpoints has returned from
\* its save calls for epoch k; so no process is in epoch k+1 before that.
C3_BarrierAfterSave ==
    save_on_epoch_end =>
        \A p \in Procs : \A c \in LocalMains :
            /\ saved[c] >= BarriersPassed(p)
            /\ (pc[p] = "step" => saved[c] >= current_epoch[p] - 1)

\* a process that writes no checkpoint is in the step loop of epoch 2 after
\* the coordinator has saved epoch 1
C3_Witness ==
    \E p \in Procs \ LocalMains : \E c \in LocalMains :
        /\ pc[p] = "step"
        /\ current_epoch[p] = 2
        /\ saved[c] = 1

\* ------------------------------------------------------------------- C4
\* C4: at most one process of the run ever deletes, creates or saves
\* under the checkpoint root, so no two processes are in the checkpoint step
\* at the same time.
C4_SingleWriter ==
    /\ Cardinality({p \in Procs : InCheckpointStep(p) \/ saved[p] > 0}) <= 1
    /\ \A p, q \in Procs : (InCheckpointStep(p) /\ InCheckpointStep(q)) => p = q

\* ------------------------------------------------------------------- C5
\* C5: when the limit is None, or existing_count + 1 does not exceed it, the
\* call deletes nothing: at the creation of the epoch's directory every
\* directory the call listed is still under the root, and the creation adds
\* that one directory and changes nothing else.
C5_NoPruneFrame ==
    [][ \A p \in Procs :
          ( /\ pc[p] = "rmtree"
            /\ pc'[p] = "save"
            /\ (total_limit = None \/ Cardinality(listed[p]) + 1 <= Val(total_limit)) )
          => /\ removed[p] = {}
             /\ listed[p] \subseteq fs'
             /\ fs' = fs \cup {CheckpointName(current_epoch[p] - 1)} ]_vars

\* the part of C5 that concerns the call alone: it removes nothing itself and
\* its last step adds the epoch's directory only
C5_OwnEffect ==
    [][ \A p \in Procs :
          ( /\ pc[p] = "rmtree"
            /\ pc'[p] = "save"
            /\ (total_limit = None \/ Cardinality(listed[p]) + 1 <= Val(total_limit)) )
          => /\ removed[p] = {}
             /\ fs' = fs \cup {CheckpointName(current_epoch[p] - 1)} ]_vars

\* ------------------------------------------------------------------- C6
\* C6: with log_interval L >= 1, the batch indices of the current epoch that
\* have a step-level record are exactly the multiples of L among the batches
\* processed so far; at the end of the step loop of an epoch of B >= 1 batches
\* there are floor((B-1)/L) + 1 of them.
StepBatches(p) ==
    {log[p][i].batch : i \in {j \in 1..Len(log[p]) :
        log[p][j].name = "loss" /\ log[p][j].epoch = current_epoch[p]}}

C6_StepRecords ==
    \A p \in Procs :
        (log_interval >= 1 /\ current_epoch[p] >= 1) =>
            /\ StepBatches(p) =
                 {i \in 0..(Len(epoch_losses[p]) - 1) : i % log_interval = 0}
            /\ (Len(epoch_losses[p]) = num_batches /\ num_batches >= 1)
                 => Cardinality(StepBatches(p)) = ((num_batches - 1) \div log_interval) + 1

\* the same with a scheduler configured
C6_WithScheduler == lr_scheduler # "None" => C6_StepRecords

\* ------------------------------------------------------------------- C7
\* C7: after k epochs of a process there are exactly k "train/loss" records,
\* the i-th keyed by epoch i and equal to the i-th element of the tracker's
\* history; the record of the epoch just ended is the rounded mean of that
\* epoch's batch losses alone; a run that ends has E of them.
C7_TrainLossPerEpoch ==
    \A p \in Procs :
        LET recs == Records(p, "train/loss")
            hist == train_loss_tracker[p].history
        IN /\ Len(recs) = EpochsEnded(p)
           /\ Len(hist) = EpochsEnded(p)
           /\ \A i \in 1..Len(recs) : recs[i].step = i /\ recs[i].value = hist[i]
           /\ (EpochsEnded(p) = current_epoch[p] /\ current_epoch[p] >= 1)
                => recs[Len(recs)].value = MeanOf(epoch_losses[p])
           /\ pc[p] = "done" => Len(recs) = epochs

\* the second epoch has ended with a mean that differs from the first's
C7_Witness ==
    \E p \in Procs :
        LET recs == Records(p, "train/loss")
        IN /\ pc[p] = "validate"
           /\ current_epoch[p] = 2
           /\ Len(epoch_losses[p]) = 3
           /\ recs[2].value = 13333
           /\ recs[1].value = 20000

\* ------------------------------------------------------------------- C8
\* C8: the global step counter is the number of batches processed so far: it
\* is (e-1)*B plus the batches of the current epoch e, E*B when the run ends,
\* and the step-level record of batch i of epoch e carries step (e-1)*B+i+1.
C8_GlobalStep ==
    \A p \in Procs :
        /\ current_step[p] =
             IF current_epoch[p] = 0 THEN 0
             ELSE (current_epoch[p] - 1) * num_batches + Len(epoch_losses[p])
        /\ pc[p] = "done" => current_step[p] = epochs * num_batches
        /\ \A i \in 1..Len(log[p]) :
             log[p][i].name = "loss" =>
                 log[p][i].step = (log[p][i].epoch - 1) * num_batches + log[p][i].batch + 1

\* the second batch of the second epoch has been logged at step B + 2
C8_Witness ==
    \E p \in Procs :
        /\ num_batches = 3
        /\ current_epoch[p] = 2
        /\ current_step[p] = 5
        /\ \E i \in 1..Len(log[p]) :
             log[p][i].name = "loss" /\ log[p][i].batch = 1 /\ log[p][i].step = 5

\* ------------------------------------------------------------------- C9
\* C9: without a scheduler (and with log_interval >= 1) train() raises
\* nothing: no process leaves it with an exception.
C9_NoSchedulerNoRaise ==
    \A p \in Procs :
        (lr_scheduler = "None" /\ log_interval >= 1) => pc[p] # "failed"

\* ------------------------------------------------------------------ C10
\* C10: with a validation data source configured, of any length, a process
\* that has left the validation lines of epoch k has run evaluate k times and
\* has k "validation/loss" records, the last keyed by k and placed after the
\* "train/loss" record of epoch k; without one there is no such record and
\* the validation tracker is untouched.
C10_ValidationPerEpoch ==
    \A p \in Procs :
        LET recs == Records(p, "validation/loss")
            k == ValidationsPassed(p)
        IN IF validation_dataloader # None
           THEN /\ eval_runs[p] = (IF pc[p] = "eval" THEN k + 1 ELSE k)
                /\ Len(recs) = k
                /\ \A i \in 1..k :
                     /\ recs[i].step = i
                     /\ Position(p, "validation/loss", i) > Position(p, "train/loss", i)
           ELSE /\ recs = <<>>
                /\ eval_runs[p] = 0
                /\ validation_loss_tracker[p] = NewLossTracker

\* the same for a validation data source that yields at least one batch
C10_NonEmptyValidation ==
    (validation_dataloader = None \/ Val(validation_dataloader) >= 1)
        => C10_ValidationPerEpoch

\* ------------------------------------------------------------------ C11
\* what a process has done for training, metrics and checkpoints
Work(p) == <<current_epoch[p], batch_index[p], current_step[p], log[p], ops[p],
             train_loss_tracker[p], validation_loss_tracker[p], eval_runs[p],
             removed[p], saved[p], arrivals[p]>>

\* p is inside wait_for_everyone and some process has not called it yet
Blocked(p) == pc[p] = "barrier" /\ ~BarrierOpen(p)

\* no process can take a step: each has left train() or is blocked
Stopped == \A p \in Procs : pc[p] \in {"done", "failed"} \/ Blocked(p)

\* p has signalled end-of-training
Ended(p) == ended[p] >= 1

\* C11: a process signals end-of-training at most once, and only after all E
\* epochs are over, with the checkpoint and the barrier of the last one when
\* checkpointing is enabled; a run without a failure cannot stop before
\* every process has signalled it; after its signal a process trains, logs
\* and writes nothing, and the checkpoint root no longer changes.
C11_EndOfTraining ==
    /\ [](\A p \in Procs :
            /\ ended[p] <= 1
            /\ Ended(p) =>
                  /\ pc[p] = "done"
                  /\ current_epoch[p] = epochs
                  /\ EpochsEnded(p) = epochs
                  /\ Len(Records(p, "train/loss")) = epochs
                  /\ save_on_epoch_end =>
                        /\ BarriersPassed(p) = epochs
                        /\ \A c \in LocalMains : saved[c] = epochs)
    /\ []( ((\A p \in Procs : pc[p] # "failed") /\ Stopped)
             => \A p \in Procs : ended[p] = 1 )
    /\ [][ \A p \in Procs : Ended(p) =>
              /\ Work(p)' = Work(p)
              /\ ended'[p] = ended[p]
              /\ fs' = fs ]_vars

\* in a run of two epochs with a process that writes no checkpoint, every
\* process has signalled end-of-training
C11_Witness ==
    /\ epochs = 2
    /\ Procs # LocalMains
    /\ \A p \in Procs : ended[p] = 1 /\ arrivals[p] = 2

\* ------------------------------------------------------------------ C12
\* the index, in the step loop, of the batch whose calls ops holds
LastBatch(p) ==
    IF epoch_losses[p] = <<>> THEN num_batches - 1 ELSE Len(epoch_losses[p]) - 1

\* C12: the calls made for a batch are, in this order: inside the
\* accumulation scope clear gradients, forward, backward, optimizer step,
\* scheduler step (exactly when a scheduler is configured) and the training
\* tracker's update; outside it the progress update and the global-step
\* increment, and last the log emission, made only for a batch whose index is
\* a multiple of log_interval. The tracker holds the update of every batch
\* begun so far, so no batch starts before the update of the one before it.
C12_StepOrder ==
    \A p \in Procs :
        /\ ops[p] # <<>> =>
              LET body == <<"accumulate.enter", "zero_grad", "forward", "backward",
                            "optimizer.step">>
                          \o (IF lr_scheduler = "None" THEN <<>> ELSE <<"lr_scheduler.step">>)
                          \o <<"train_loss_tracker.update", "accumulate.exit",
                               "progress_bar.update", "current_step += 1">>
              IN \/ ops[p] = body
                 \/ /\ ops[p] = Append(body, "log_metrics")
                    /\ log_interval >= 1
                    /\ LastBatch(p) % log_interval = 0
        /\ pc[p] = "step" =>
              /\ train_loss_tracker[p].loss_count = Len(epoch_losses[p])
              /\ batch_index[p] <= Len(epoch_losses[p])

\* a batch with a scheduler step whose log emission was made
C12_Witness ==
    \E p \in Procs :
        /\ Len(ops[p]) = 11
        /\ ops[p][6] = "lr_scheduler.step"
        /\ ops[p][11] = "log_metrics"
        /\ LastBatch(p) = 2

\* ------------------------------------------------------------------ C13
\* C13: after any sequence of update, reset and on_epoch_end calls the sample
\* count is the number of values passed to update since the last reset (or
\* since construction), the running mean is their sum divided by their number,
\* and the loss accessor is that mean rounded to ndigits: no multiple of
\* 10^-ndigits is nearer to it.
C13_RunningMean ==
    LET n == Len(fed)
        r == Loss(tracker)
        d == r * n - Sum(fed) * Pow10(NDigits)
    IN /\ tracker.loss_count = n
       /\ n >= 1 =>
             /\ tracker.loss[1] * n = Sum(fed) * tracker.loss[2]
             /\ 2 * (IF d < 0 THEN -d ELSE d) <= n

\* after a reset three values were passed to update; their mean is 4/3
C13_Witness ==
    /\ fed = <<1, 1, 2>>
    /\ \E i \in 1..Len(calls) : calls[i].op = "reset"
    /\ tracker.loss = <<4, 3>>
    /\ Loss(tracker) = 13333

\* ------------------------------------------------------------------ C14
LastCall == calls'[Len(calls')]

\* C14: on_epoch_end(reset=true) appends one element to history, the rounded
\* mean read just before the call, changes no earlier element and leaves
\* count 0 and loss 0.0; on_epoch_end(reset=false) appends likewise and leaves
\* mean and count unchanged; update and reset never change history.
C14_HistoryFrame ==
    [][ calls' # calls =>
          LET h == tracker.history
              h2 == tracker'.history
          IN /\ LastCall.op = "on_epoch_end" =>
                   /\ Len(h2) = Len(h) + 1
                   /\ SubSeq(h2, 1, Len(h)) = h
                   /\ h2[Len(h2)] = Loss(tracker)
                   /\ IF LastCall.reset
                      THEN tracker'.loss_count = 0 /\ Loss(tracker)' = 0
                      ELSE /\ tracker'.loss_count = tracker.loss_count
                           /\ tracker'.loss = tracker.loss
             /\ LastCall.op \in {"update", "reset"} => h2 = h ]_vars

\* two epochs with different means have been closed with a reset
C14_Witness ==
    /\ tracker.history = <<15000, 20000>>
    /\ tracker.loss_count = 0
    /\ calls[Len(calls)].op = "on_epoch_end"
    /\ calls[Len(calls)].reset

\* ------------------------------------------------------------------ C15
\* the checkpoint step of c has raised
CheckpointFailed(c) ==
    pc[c] = "failed" /\ error[c] \in {"IndexError", "FileNotFoundError"}

\* C15: when the checkpoint step of a coordinating process fails in epoch k,
\* no process is left inside the barrier of epoch k, which the failed process
\* never joins; no process begins epoch k+1; end-of-training is not signalled.
C15_FailFast ==
    \A c \in LocalMains :
        CheckpointFailed(c) =>
            \A q \in Procs :
                /\ ~(pc[q] = "barrier" /\ arrivals[q] > arrivals[c])
                /\ current_epoch[q] <= current_epoch[c]
                /\ ended[q] = 0

\* the part of C15 that holds: after the failure of epoch k's checkpoint step
\* no process begins epoch k+1 and none signals end-of-training, and the
\* failed process takes no further step
C15_NoNextEpoch ==
    /\ [](\A c \in LocalMains :
            CheckpointFailed(c) =>
                \A q \in Procs : current_epoch[q] <= current_epoch[c] /\ ended[q] = 0)
    /\ [][ \A c \in LocalMains :
              CheckpointFailed(c) => (Work(c)' = Work(c) /\ pc'[c] = pc[c]) ]_vars

\* ------------------------------------------------------------------ C16
\* p's checkpoint step of some epoch has created its directory and the
\* deletions of its next one have not begun
AfterCheckpoint(p) == pc[p] = "save" \/ (saved[p] >= 1 /\ pc[p] \notin {"rmtree", "failed"})

\* the epoch of that checkpoint step
CheckpointEpoch(p) == IF pc[p] = "save" THEN current_epoch[p] ELSE saved[p]

\* checkpoint_<j> for the most recent min(L, k) zero-based epoch indices
Retained(k, L) == {CheckpointName(j) : j \in (IF k > L THEN k - L ELSE 0) .. (k - 1)}

\* C16: in a run that starts with an empty checkpoint root, with checkpointing
\* enabled and a limit L >= 1, after the checkpoint step of epoch k the root
\* holds exactly checkpoint_<j> for j in max(0, k-L)..k-1; the directory
\* checkpoint_<k-1> exists when get_checkpoint_dir returns.
C16_RootAfterCheckpoint ==
    (initial_fs = {} /\ save_on_epoch_end /\ total_limit # None /\ Val(total_limit) >= 1)
        => \A p \in LocalMains :
             AfterCheckpoint(p) => fs = Retained(CheckpointEpoch(p), Val(total_limit))

\* the same in a run on one node
C16_OneNode == num_nodes = 1 => C16_RootAfterCheckpoint

\* ------------------------------------------------------------------ C17
\* C17: when the training data source yields no batch, no process fails; the
\* training tracker is never updated and its loss accessor is 0.0; there is no
\* step-level record and the global step stays 0; each epoch that has ended
\* has exactly one "train/loss" record, of value 0.0, and one history element
\* 0.0.
C17_EmptyEpoch ==
    num_batches = 0 =>
        \A p \in Procs :
            LET recs == Records(p, "train/loss")
                hist == train_loss_tracker[p].history
            IN /\ pc[p] # "failed"
               /\ train_loss_tracker[p].loss_count = 0
               /\ Loss(train_loss_tracker[p]) = 0
               /\ Records(p, "loss") = <<>>
               /\ ops[p] = <<>>
               /\ current_step[p] = 0
               /\ Len(recs) = EpochsEnded(p)
               /\ \A i \in 1..Len(recs) : recs[i].step = i /\ recs[i].value = 0
               /\ hist = [i \in 1..EpochsEnded(p) |-> 0]

\* a run of two epochs without a batch has ended
C17_Witness ==
    \E p \in Procs :
        /\ num_batches = 0
        /\ epochs = 2
        /\ pc[p] = "done"
        /\ train_loss_tracker[p].history = <<0, 0>>
        /\ Len(Records(p, "train/loss")) = 2

\* ------------------------------------------------------------------ C18
\* the directories the run of p has written a checkpoint into
Written(p) == {CheckpointName(j) : j \in 0 .. (saved[p] - 1)}

\* the directories that pre-date the run and are still under the root
Surviving(p) == (fs \cap initial_fs) \ Written(p)

WritingCheckpoint(p) == pc[p] \in {"listdir", "rmtree", "save"}

\* C19: the model is in training mode whenever a process is in the step loop
\* and in evaluation mode whenever it is in the loop of evaluate; a training
\* step is taken in training mode and a validation batch is evaluated in
\* evaluation mode; with a validation data source configured, the checkpoint
\* of epoch k is written after the k-th run of evaluate and its record, in
\* evaluation mode.
C19_ModelMode ==
    /\ [](\A p \in Procs :
            /\ pc[p] = "step" => model_mode[p] = "train"
            /\ pc[p] = "eval" => model_mode[p] = "eval"
            /\ (WritingCheckpoint(p) /\ validation_dataloader # None) =>
                  /\ model_mode[p] = "eval"
                  /\ eval_runs[p] = current_epoch[p]
                  /\ Len(Records(p, "validation/loss")) = current_epoch[p])
    /\ [][ \A p \in Procs :
              /\ train_loss_tracker'[p].loss_count > train_loss_tracker[p].loss_count
                    => model_mode[p] = "train" /\ model_mode'[p] = "train"
              /\ validation_loss_tracker'[p].loss_count > validation_loss_tracker[p].loss_count
                    => model_mode[p] = "eval" /\ model_mode'[p] = "eval" ]_vars

\* the same for a validation data source that yields at least one batch
C19_NonEmptyValidation ==
    [](\A p \in Procs :
         /\ pc[p] = "step" => model_mode[p] = "train"
         /\ pc[p] = "eval" => model_mode[p] = "eval"
         /\ (WritingCheckpoint(p) /\ Truthy(validation_dataloader)) =>
               /\ model_mode[p] = "eval"
               /\ eval_runs[p] = current_epoch[p]
               /\ Len(Records(p, "validation/loss")) = current_epoch[p])

====
